---- MODULE Spec2Model ----
(***************************************************************************)
(* State-machine model of the logs::Logger / logs::SLogger library         *)
(* (logger.h, logger.cpp).                                                 *)
(*                                                                         *)
(* A std::string is a finite sequence of characters; a character is a      *)
(* one-character TLA+ string, and NUL stands for the '\0' character that   *)
(* a std::string may contain but that ends a C string.  A std::ostream, a  *)
(* user stream and a file are the sequence of characters written so far.   *)
(* File contents are those of a POSIX build (no end-of-line translation).  *)
(***************************************************************************)
EXTENDS Integers, Sequences, FiniteSets, TLC

\* enum LOG_TYPE {INFO = 0, WARNING = 1, ERROR = 2, FATAL = 3}
INFO == 0
WARNING == 1
ERROR == 2
FATAL == 3
LOG_TYPE == {INFO, WARNING, ERROR, FATAL}

\* The terminator of a C string.
NUL == "\\0"

\* ---------------------------------------------------------------- bounds
\* Number of library calls in a run of one logger (Spec, SSpec).
MaxCalls == 3
\* Number of library calls in a run that uses both loggers (BothSpec).
MaxBothCalls == 2

\* ---------------------------------------------------------------- inputs
\* Arguments the client passes.
Messages == {<<"x">>, <<"x", NUL, "y">>}
Headers == {<<>>, <<"#">>}
Separators == {<<":">>}
Newlines == {<<"\r", "\n">>}
\* buffer_min_capacity of Logger(std::size_t).
Capacities == {0, 2}
\* "log.txt" can be opened for writing; the directory of the other path
\* does not exist, so std::ofstream cannot open it.
FileNames == {"log.txt", "/nodir/log.txt"}
\* std::ios_base::out (the default; truncates) and std::ios_base::app.
OpenModes == {"out", "app"}

\* ----------------------------------------------------------------- state
VARIABLES
    \* Logger (one instance)
    flags_logs_enabled_,   \* std::unordered_map<LOG_TYPE, bool>
    logs_headers_,         \* std::unordered_map<LOG_TYPE, std::string>
    separator_,            \* std::string
    newline_,              \* std::string
    buffer_,               \* std::vector<std::string>
    \* SLogger (static members)
    INFO_ENABLED_FLAG,
    WARNING_ENABLED_FLAG,
    ERROR_ENABLED_FLAG,
    FATAL_ENABLED_FLAG,
    NEWLINE,
    \* the sinks
    os,                    \* characters received by the std::ostream
    stream,                \* characters received by the user stream (StreamT)
    files,                 \* file system: name -> [exists, content]
    handles,               \* names of the files a std::ofstream of the library
                           \* holds open
    \* the calls
    ret,                   \* value returned by the last bool-returning call
    last,                  \* the last call: its name and arguments
    calls,                 \* number of calls made
    logged                 \* history: for each buffered line, the level and
                           \* message it was logged with and the header,
                           \* separator and newline current at that call

loggerVars == <<flags_logs_enabled_, logs_headers_, separator_, newline_, buffer_>>
sloggerVars == <<INFO_ENABLED_FLAG, WARNING_ENABLED_FLAG, ERROR_ENABLED_FLAG,
                 FATAL_ENABLED_FLAG, NEWLINE>>
sinkVars == <<os, stream, files, handles>>
vars == <<loggerVars, sloggerVars, sinkVars, ret, last, calls, logged>>

\* ------------------------------------------------------- strings, files
\* What operator<<(const char *) writes for s.c_str(): the characters
\* before the first '\0'.
RECURSIVE CStr(_)
CStr(s) ==
    IF s = <<>> \/ Head(s) = NUL THEN <<>> ELSE <<Head(s)>> \o CStr(Tail(s))

NoFile == [exists |-> FALSE, content |-> <<>>]

\* Whether std::ofstream ofs(file_name, mode) opens the file.
CanOpen(file_name) == file_name = "log.txt"

\* Mutant: the test written if(ofs).
OpenFailed_Inverted(file_name) == CanOpen(file_name)

\* if(!ofs), after std::ofstream ofs(file_name, mode)
OpenFailed(file_name) == ~CanOpen(file_name)

\* Mutant: the open truncates whatever the mode.
Opened_Truncates(file_name, mode) == <<>>

\* Content of the file right after a successful open: out truncates, app
\* keeps what is there; both create a missing file.
Opened(file_name, mode) ==
    IF mode = "app" /\ files[file_name].exists
    THEN files[file_name].content
    ELSE <<>>

\* Mutant: the file is opened only when there is text to write.
Written_OnlyText(file_name, mode, text) ==
    IF text = <<>> THEN files
    ELSE [files EXCEPT ![file_name] =
             [exists |-> TRUE, content |-> Opened(file_name, mode) \o text]]

\* The file system after open, write of text, close.
Written(file_name, mode, text) ==
    [files EXCEPT ![file_name] =
        [exists |-> TRUE, content |-> Opened(file_name, mode) \o text]]

\* Mutant: the stream is left open.
Closed_Leaks(open, file_name) == open

\* ofs.close(): the open files once the std::ofstream on file_name is closed.
Closed(open, file_name) == open \ {file_name}

\* ----------------------------------------------------------------- Logger
DefaultHeaders ==
    (INFO :> <<"[", "I", "N", "F", "O", "]">>)
    @@ (WARNING :> <<"[", "W", "A", "R", "N", "I", "N", "G", "]">>)
    @@ (ERROR :> <<"[", "E", "R", "R", "O", "R", "]">>)
    @@ (FATAL :> <<"[", "F", "A", "T", "A", "L", "]">>)

\* Mutant: the constructor calls buffer_.resize(buffer_min_capacity).
Reserved_Resized(buffer, buffer_min_capacity) ==
    buffer \o [i \in 1..buffer_min_capacity |-> <<>>]

\* buffer_.reserve(buffer_min_capacity): the capacity grows, the elements
\* stay.
Reserved(buffer, buffer_min_capacity) == buffer

\* The logger is built by Logger() or by Logger(buffer_min_capacity), which
\* delegates to Logger() and reserves.
Init ==
    /\ flags_logs_enabled_ = [t \in LOG_TYPE |-> TRUE]
    /\ logs_headers_ = DefaultHeaders
    /\ separator_ = <<" ", "-", " ">>
    /\ newline_ = <<"\n">>
    /\ buffer_ \in {<<>>} \cup {Reserved(<<>>, n) : n \in Capacities}
    /\ INFO_ENABLED_FLAG = TRUE
    /\ WARNING_ENABLED_FLAG = TRUE
    /\ ERROR_ENABLED_FLAG = TRUE
    /\ FATAL_ENABLED_FLAG = TRUE
    /\ NEWLINE = <<"\n">>
    /\ os = <<>>
    /\ stream = <<>>
    /\ files = [f \in FileNames |-> NoFile]
    /\ handles = {}
    /\ ret = TRUE
    /\ last = [op |-> "none"]
    /\ calls = 0
    /\ logged = <<>>

\* Every action is one call; the run makes at most MaxCalls of them.  The
\* record of a dump also holds the buffer and its history as the call found
\* them, and whether the call before it was a file dump that failed.
Call(record) ==
    /\ calls < MaxCalls
    /\ calls' = calls + 1
    /\ last' = record

\* Getters (const, return by value).
isEnabled(log_type) == flags_logs_enabled_[log_type]
header(log_type) == logs_headers_[log_type]
separator == separator_
newline == newline_

\* Mutant: the assignment reaches every flag.
Enabled_All(log_type, enabled) ==
    [t \in DOMAIN flags_logs_enabled_ |-> enabled]

\* void Logger::setEnabled(LOG_TYPE log_type, bool enabled)
Enabled(log_type, enabled) ==
    [flags_logs_enabled_ EXCEPT ![log_type] = enabled]

setEnabled(log_type, enabled) ==
    /\ Call([op |-> "setEnabled", log_type |-> log_type])
    /\ flags_logs_enabled_' = Enabled(log_type, enabled)
    /\ UNCHANGED <<logs_headers_, separator_, newline_, buffer_, logged>>
    /\ UNCHANGED <<sloggerVars, sinkVars, ret>>

\* Mutant: disabling every level empties the map.
EnabledAll_Clears(enabled) ==
    [t \in (IF enabled THEN DOMAIN flags_logs_enabled_ ELSE {}) |-> enabled]

\* void Logger::setEnabledAll(bool enabled)
EnabledAll(enabled) ==
    [t \in DOMAIN flags_logs_enabled_ |-> enabled]

setEnabledAll(enabled) ==
    /\ Call([op |-> "setEnabledAll"])
    /\ flags_logs_enabled_' = EnabledAll(enabled)
    /\ UNCHANGED <<logs_headers_, separator_, newline_, buffer_, logged>>
    /\ UNCHANGED <<sloggerVars, sinkVars, ret>>

\* Mutant: the assignment reaches every header.
Headed_All(log_type, h) ==
    [t \in DOMAIN logs_headers_ |-> h]

\* logs_headers_[log_type] = header
Headed(log_type, h) ==
    [logs_headers_ EXCEPT ![log_type] = h]

\* void Logger::setHeader(LOG_TYPE log_type, const std::string & header)
setHeader(log_type, h) ==
    /\ Call([op |-> "setHeader", log_type |-> log_type])
    /\ logs_headers_' = Headed(log_type, h)
    /\ UNCHANGED <<flags_logs_enabled_, separator_, newline_, buffer_, logged>>
    /\ UNCHANGED <<sloggerVars, sinkVars, ret>>

\* void Logger::setSeparator(const std::string & sep)
setSeparator(sep) ==
    /\ Call([op |-> "setSeparator"])
    /\ separator_' = sep
    /\ UNCHANGED <<flags_logs_enabled_, logs_headers_, newline_, buffer_, logged>>
    /\ UNCHANGED <<sloggerVars, sinkVars, ret>>

\* void Logger::setNewline(const std::string & nl)
setNewline(nl) ==
    /\ Call([op |-> "setNewline"])
    /\ newline_' = nl
    /\ UNCHANGED <<flags_logs_enabled_, logs_headers_, separator_, buffer_, logged>>
    /\ UNCHANGED <<sloggerVars, sinkVars, ret>>

\* Mutant: the entry ends with the newline.
Entry_WithNewline(log_type, message) ==
    logs_headers_[log_type] \o separator_ \o message \o newline_

\* logs_headers_[log_type] + separator_ + message: the entry log() buffers.
Entry(log_type, message) ==
    logs_headers_[log_type] \o separator_ \o message

\* Mutant: the push_back is not guarded by the flag.
Buffered_Unguarded(log_type, message) ==
    Append(buffer_, Entry(log_type, message))

\* The buffer after Logger::log(log_type, message).
Buffered(log_type, message) ==
    IF flags_logs_enabled_[log_type]
    THEN Append(buffer_, Entry(log_type, message))
    ELSE buffer_

\* void Logger::log(LOG_TYPE log_type, const std::string & message)
log(log_type, message) ==
    /\ Call([op |-> "log", log_type |-> log_type, message |-> message])
    /\ buffer_' = Buffered(log_type, message)
    /\ logged' = IF flags_logs_enabled_[log_type]
                 THEN Append(logged, [log_type |-> log_type, message |-> message,
                                      header |-> logs_headers_[log_type],
                                      separator |-> separator_,
                                      newline |-> newline_])
                 ELSE logged
    /\ UNCHANGED <<flags_logs_enabled_, logs_headers_, separator_, newline_>>
    /\ UNCHANGED <<sloggerVars, sinkVars, ret>>

\* Mutant: a direct log also buffers its line.
DirectBuffer_Pushes(log_type, message) == Buffered(log_type, message)

\* The buffer after a direct log (to a std::ostream, a user stream or a
\* file): the three overloads are const and do not name buffer_.
DirectBuffer(log_type, message) == buffer_

\* os << logs_headers_.at(log_type) << separator_ << message << newline_
Line(log_type, message) ==
    logs_headers_[log_type] \o separator_ \o message \o newline_

\* What Logger::log(log_type, message, os) inserts into os.
LogOs(log_type, message) ==
    IF flags_logs_enabled_[log_type] THEN Line(log_type, message) ELSE <<>>

\* void Logger::log(LOG_TYPE, const std::string &, std::ostream & os) const
log_os(log_type, message) ==
    /\ Call([op |-> "log_os", log_type |-> log_type])
    /\ os' = os \o LogOs(log_type, message)
    /\ buffer_' = DirectBuffer(log_type, message)
    /\ UNCHANGED <<flags_logs_enabled_, logs_headers_, separator_, newline_>>
    /\ UNCHANGED <<logged, sloggerVars, stream, files, handles, ret>>

\* stream << logs_headers_.at(log_type).c_str() << separator_.c_str()
\*        << message.c_str() << newline_.c_str()
LineStream(log_type, message) ==
    CStr(logs_headers_[log_type]) \o CStr(separator_) \o CStr(message)
        \o CStr(newline_)

\* What Logger::log<StreamT>(log_type, message, stream) inserts into stream.
LogStream(log_type, message) ==
    IF flags_logs_enabled_[log_type] THEN LineStream(log_type, message) ELSE <<>>

\* template <typename StreamT> void Logger::log(LOG_TYPE, message, StreamT &) const
log_stream(log_type, message) ==
    /\ Call([op |-> "log_stream", log_type |-> log_type])
    /\ stream' = stream \o LogStream(log_type, message)
    /\ buffer_' = DirectBuffer(log_type, message)
    /\ UNCHANGED <<flags_logs_enabled_, logs_headers_, separator_, newline_>>
    /\ UNCHANGED <<logged, sloggerVars, os, files, handles, ret>>

\* Mutant: the std::ofstream is constructed before the flag is tested.
LogFileOpens_Always(log_type) == TRUE

\* Whether Logger::log(log_type, message, file_name, mode) constructs the
\* std::ofstream.
LogFileOpens(log_type) == flags_logs_enabled_[log_type]

\* bool Logger::log(LOG_TYPE, message, file_name, mode) const
log_file(log_type, message, file_name, mode) ==
    /\ Call([op |-> "log_file", log_type |-> log_type, file_name |-> file_name])
    /\ IF LogFileOpens(log_type)
       THEN IF OpenFailed(file_name)
            THEN ret' = FALSE /\ files' = files /\ handles' = handles
            ELSE /\ files' = Written(file_name, mode, Line(log_type, message))
                 /\ handles' = Closed(handles \cup {file_name}, file_name)
                 /\ ret' = TRUE
       ELSE ret' = TRUE /\ files' = files /\ handles' = handles
    /\ buffer_' = DirectBuffer(log_type, message)
    /\ UNCHANGED <<flags_logs_enabled_, logs_headers_, separator_, newline_>>
    /\ UNCHANGED <<logged, sloggerVars, os, stream>>

\* Mutant: each line is followed by the newline current when it was logged.
RECURSIVE JoinEach(_, _)
JoinEach(lines, nls) ==
    IF lines = <<>> THEN <<>>
    ELSE Head(lines) \o Head(nls) \o JoinEach(Tail(lines), Tail(nls))

Dump_NewlineAtLogTime(lines) ==
    JoinEach(lines, [i \in DOMAIN lines |-> logged[i].newline])

\* Mutant: the loop skips the lines of the levels that are disabled now.
RECURSIVE JoinEnabled(_, _)
JoinEnabled(lines, history) ==
    IF lines = <<>> THEN <<>>
    ELSE (IF flags_logs_enabled_[Head(history).log_type]
          THEN Head(lines) \o newline_ ELSE <<>>)
             \o JoinEnabled(Tail(lines), Tail(history))

Dump_EnabledOnly(lines) == JoinEnabled(lines, logged)

\* for(const auto & line : buffer_) os << line << newline_;
RECURSIVE Dump(_)
Dump(lines) ==
    IF lines = <<>> THEN <<>>
    ELSE Head(lines) \o newline_ \o Dump(Tail(lines))

\* for(const auto & line : buffer_) stream << line.c_str() << newline_.c_str();
RECURSIVE DumpStream(_)
DumpStream(lines) ==
    IF lines = <<>> THEN <<>>
    ELSE CStr(Head(lines)) \o CStr(newline_) \o DumpStream(Tail(lines))

\* History: the last call was a dump(file_name, mode) that returned false.
AfterFailedDump == last.op = "dump_file" /\ ~ret

\* void Logger::dump(std::ostream & os)
dump_os ==
    /\ Call([op |-> "dump_os", buffer |-> buffer_, logged |-> logged,
             retry |-> AfterFailedDump])
    /\ os' = os \o Dump(buffer_)
    /\ buffer_' = <<>>
    /\ logged' = <<>>
    /\ UNCHANGED <<flags_logs_enabled_, logs_headers_, separator_, newline_>>
    /\ UNCHANGED <<sloggerVars, stream, files, handles, ret>>

\* template <typename StreamT> void Logger::dump(StreamT & stream)
dump_stream ==
    /\ Call([op |-> "dump_stream", buffer |-> buffer_, logged |-> logged,
             retry |-> AfterFailedDump])
    /\ stream' = stream \o DumpStream(buffer_)
    /\ buffer_' = <<>>
    /\ logged' = <<>>
    /\ UNCHANGED <<flags_logs_enabled_, logs_headers_, separator_, newline_>>
    /\ UNCHANGED <<sloggerVars, os, files, handles, ret>>

\* Mutant: buffer_.clear() runs before the open is tested.
KeptOnFailure_Cleared == <<>>

\* The buffer after Logger::dump(file_name, mode) found the file unopenable.
KeptOnFailure == buffer_

\* bool Logger::dump(const std::string & file_name, std::ios_base::openmode mode)
dump_file(file_name, mode) ==
    /\ Call([op |-> "dump_file", file_name |-> file_name, buffer |-> buffer_,
             logged |-> logged, retry |-> AfterFailedDump,
             before |-> files[file_name].content])
    /\ IF OpenFailed(file_name)
       THEN /\ ret' = FALSE
            /\ buffer_' = KeptOnFailure
            /\ logged' = IF KeptOnFailure = <<>> THEN <<>> ELSE logged
            /\ files' = files
            /\ handles' = handles
       ELSE /\ files' = Written(file_name, mode, Dump(buffer_))
            /\ handles' = Closed(handles \cup {file_name}, file_name)
            /\ buffer_' = <<>>
            /\ logged' = <<>>
            /\ ret' = TRUE
    /\ UNCHANGED <<flags_logs_enabled_, logs_headers_, separator_, newline_>>
    /\ UNCHANGED <<sloggerVars, os, stream>>

LoggerNext ==
    \/ \E t \in LOG_TYPE, e \in BOOLEAN : setEnabled(t, e)
    \/ \E e \in BOOLEAN : setEnabledAll(e)
    \/ \E t \in LOG_TYPE, h \in Headers : setHeader(t, h)
    \/ \E s \in Separators : setSeparator(s)
    \/ \E n \in Newlines : setNewline(n)
    \/ \E t \in LOG_TYPE, m \in Messages : log(t, m)
    \/ \E t \in LOG_TYPE, m \in Messages : log_os(t, m)
    \/ \E t \in LOG_TYPE, m \in Messages : log_stream(t, m)
    \/ \E t \in LOG_TYPE, m \in Messages, f \in FileNames, o \in OpenModes :
          log_file(t, m, f, o)
    \/ dump_os
    \/ dump_stream
    \/ \E f \in FileNames, o \in OpenModes : dump_file(f, o)

\* --------------------------------------------------------------- SLogger
\* The string literals of SLogger::log.
LitInfo == <<"[", "I", "N", "F", "O", "]", " ", "-", " ">>
LitWarning == <<"[", "W", "A", "R", "N", "I", "N", "G", "]", " ", "-", " ">>
LitError == <<"[", "E", "R", "R", "O", "R", "]", " ", "-", " ">>
LitFatal == <<"[", "F", "A", "T", "A", "L", "]", " ", "-", " ">>

\* SLogger::X_ENABLED_FLAG = enabled (the flags are public static members).
SetFlag(log_type, enabled) ==
    /\ Call([op |-> "SetFlag", log_type |-> log_type])
    /\ INFO_ENABLED_FLAG' = IF log_type = INFO THEN enabled ELSE INFO_ENABLED_FLAG
    /\ WARNING_ENABLED_FLAG' =
           IF log_type = WARNING THEN enabled ELSE WARNING_ENABLED_FLAG
    /\ ERROR_ENABLED_FLAG' = IF log_type = ERROR THEN enabled ELSE ERROR_ENABLED_FLAG
    /\ FATAL_ENABLED_FLAG' = IF log_type = FATAL THEN enabled ELSE FATAL_ENABLED_FLAG
    /\ UNCHANGED <<NEWLINE, loggerVars, logged, sinkVars, ret>>

\* SLogger::NEWLINE = nl
SetNEWLINE(nl) ==
    /\ Call([op |-> "SetNEWLINE"])
    /\ NEWLINE' = nl
    /\ UNCHANGED <<INFO_ENABLED_FLAG, WARNING_ENABLED_FLAG, ERROR_ENABLED_FLAG,
                   FATAL_ENABLED_FLAG, loggerVars, logged, sinkVars, ret>>

\* What SLogger::log(log_type, message, os) inserts into os (the switch).
SLogOs(log_type, message) ==
    CASE log_type = INFO ->
            IF INFO_ENABLED_FLAG THEN LitInfo \o message \o NEWLINE ELSE <<>>
      [] log_type = WARNING ->
            IF WARNING_ENABLED_FLAG THEN LitWarning \o message \o NEWLINE ELSE <<>>
      [] log_type = ERROR ->
            IF ERROR_ENABLED_FLAG THEN LitError \o message \o NEWLINE ELSE <<>>
      [] log_type = FATAL ->
            IF FATAL_ENABLED_FLAG THEN LitWarning \o message \o NEWLINE ELSE <<>>

\* void SLogger::log(LOG_TYPE, const std::string & message, std::ostream & os)
SLogger_log_os(log_type, message) ==
    /\ Call([op |-> "SLogger_log_os", log_type |-> log_type])
    /\ os' = os \o SLogOs(log_type, message)
    /\ UNCHANGED <<loggerVars, logged, sloggerVars, stream, files, handles, ret>>

\* Mutant: the FATAL case writes "[FATAL] - ".
SLogStream_FatalLiteral(log_type, message) ==
    CASE log_type = INFO ->
            IF INFO_ENABLED_FLAG
            THEN LitInfo \o CStr(message) \o CStr(NEWLINE) ELSE <<>>
      [] log_type = WARNING ->
            IF WARNING_ENABLED_FLAG
            THEN LitWarning \o CStr(message) \o CStr(NEWLINE) ELSE <<>>
      [] log_type = ERROR ->
            IF ERROR_ENABLED_FLAG
            THEN LitError \o CStr(message) \o CStr(NEWLINE) ELSE <<>>
      [] log_type = FATAL ->
            IF FATAL_ENABLED_FLAG
            THEN LitFatal \o CStr(message) \o CStr(NEWLINE) ELSE <<>>

\* What SLogger::log<StreamT>(log_type, message, stream) inserts into stream.
SLogStream(log_type, message) ==
    CASE log_type = INFO ->
            IF INFO_ENABLED_FLAG
            THEN LitInfo \o CStr(message) \o CStr(NEWLINE) ELSE <<>>
      [] log_type = WARNING ->
            IF WARNING_ENABLED_FLAG
            THEN LitWarning \o CStr(message) \o CStr(NEWLINE) ELSE <<>>
      [] log_type = ERROR ->
            IF ERROR_ENABLED_FLAG
            THEN LitError \o CStr(message) \o CStr(NEWLINE) ELSE <<>>
      [] log_type = FATAL ->
            IF FATAL_ENABLED_FLAG
            THEN LitWarning \o CStr(message) \o CStr(NEWLINE) ELSE <<>>

\* template <typename StreamT> static void SLogger::log(LOG_TYPE, message, StreamT &)
SLogger_log_stream(log_type, message) ==
    /\ Call([op |-> "SLogger_log_stream", log_type |-> log_type])
    /\ stream' = stream \o SLogStream(log_type, message)
    /\ UNCHANGED <<loggerVars, logged, sloggerVars, os, files, handles, ret>>

\* Mutant: the FATAL case tests ERROR_ENABLED_FLAG.
SLogFileOpens_ErrorFlagForFatal(log_type) ==
    CASE log_type = INFO -> INFO_ENABLED_FLAG
      [] log_type = WARNING -> WARNING_ENABLED_FLAG
      [] log_type = ERROR -> ERROR_ENABLED_FLAG
      [] log_type = FATAL -> ERROR_ENABLED_FLAG

\* Whether SLogger::log(log_type, message, file_name, mode) constructs the
\* std::ofstream: the flag its case tests.
SLogFileOpens(log_type) ==
    CASE log_type = INFO -> INFO_ENABLED_FLAG
      [] log_type = WARNING -> WARNING_ENABLED_FLAG
      [] log_type = ERROR -> ERROR_ENABLED_FLAG
      [] log_type = FATAL -> FATAL_ENABLED_FLAG

\* What the case of log_type writes to the opened file.
SLineFile(log_type, message) ==
    CASE log_type = INFO -> LitInfo \o message \o NEWLINE
      [] log_type = WARNING -> LitWarning \o message \o NEWLINE
      [] log_type = ERROR -> LitError \o message \o NEWLINE
      [] log_type = FATAL -> LitFatal \o message \o NEWLINE

\* bool SLogger::log(LOG_TYPE, message, file_name, mode)
SLogger_log_file(log_type, message, file_name, mode) ==
    /\ Call([op |-> "SLogger_log_file", log_type |-> log_type,
             file_name |-> file_name])
    /\ IF SLogFileOpens(log_type)
       THEN IF OpenFailed(file_name)
            THEN ret' = FALSE /\ files' = files /\ handles' = handles
            ELSE /\ files' = Written(file_name, mode, SLineFile(log_type, message))
                 /\ handles' = Closed(handles \cup {file_name}, file_name)
                 /\ ret' = TRUE
       ELSE ret' = TRUE /\ files' = files /\ handles' = handles
    /\ UNCHANGED <<loggerVars, logged, sloggerVars, os, stream>>

SLoggerNext ==
    \/ \E t \in LOG_TYPE, e \in BOOLEAN : SetFlag(t, e)
    \/ \E n \in Newlines : SetNEWLINE(n)
    \/ \E t \in LOG_TYPE, m \in Messages : SLogger_log_os(t, m)
    \/ \E t \in LOG_TYPE, m \in Messages : SLogger_log_stream(t, m)
    \/ \E t \in LOG_TYPE, m \in Messages, f \in FileNames, o \in OpenModes :
          SLogger_log_file(t, m, f, o)

\* -------------------------------------------------------- specifications
\* A client of one Logger.
Next == LoggerNext

Spec == Init /\ [][Next]_vars

\* A client of SLogger.
SSpec == Init /\ [][SLoggerNext]_vars

\* A client of both loggers.
BothNext == calls < MaxBothCalls /\ (LoggerNext \/ SLoggerNext)

BothSpec == Init /\ [][BothNext]_vars

\* ------------------------------------------------------------ properties
\* The lines, in order, each followed by nl.
RECURSIVE Joined(_, _)
Joined(lines, nl) ==
    IF lines = <<>> THEN <<>>
    ELSE Head(lines) \o nl \o Joined(Tail(lines), nl)

\* The characters a call added to a sink that held `before`.
Added(before, after) == SubSeq(after, Len(before) + 1, Len(after))

StartsWith(text, prefix) ==
    /\ Len(text) >= Len(prefix)
    /\ SubSeq(text, 1, Len(prefix)) = prefix

\* "[INFO]" ... "[FATAL]": the header text "[LOG_TYPE]" of a level.
Tag(log_type) ==
    CASE log_type = INFO -> <<"[", "I", "N", "F", "O", "]">>
      [] log_type = WARNING -> <<"[", "W", "A", "R", "N", "I", "N", "G", "]">>
      [] log_type = ERROR -> <<"[", "E", "R", "R", "O", "R", "]">>
      [] log_type = FATAL -> <<"[", "F", "A", "T", "A", "L", "]">>

\* The SLogger flag of a level.
SFlag(log_type) ==
    CASE log_type = INFO -> INFO_ENABLED_FLAG
      [] log_type = WARNING -> WARNING_ENABLED_FLAG
      [] log_type = ERROR -> ERROR_ENABLED_FLAG
      [] log_type = FATAL -> FATAL_ENABLED_FLAG

NoOutput == os' = os /\ stream' = stream /\ files' = files

\* C1: a Logger log call at a disabled level, buffered or direct to a
\* std::ostream or a user stream, writes nothing to any sink and leaves the
\* buffer as it was.
C1_DisabledLogDoesNothing ==
    [][\A t \in LOG_TYPE, m \in Messages :
          (~isEnabled(t) /\ (log(t, m) \/ log_os(t, m) \/ log_stream(t, m)))
              => (NoOutput /\ buffer_' = buffer_)]_vars

\* C1 witness: a buffered log at a disabled level was just made on a logger
\* that holds a buffered line.
C1_Witness ==
    /\ last.op = "log"
    /\ ~isEnabled(last.log_type)
    /\ Len(buffer_) = 1

\* The one call made on the new logger is log(INFO, "x").
FirstLogInfoX ==
    calls = 1 /\ last = [op |-> "log", log_type |-> INFO, message |-> <<"x">>]

\* C2: dump(sink), for a std::ostream and for a user stream, appends every
\* buffered line once, in the order logged, each followed by the current
\* newline, and empties the buffer; log(INFO, "x") then dump on a new logger
\* yields "[INFO] - x\n".
C2_DumpEmitsEveryLine ==
    [][/\ dump_os => (os' = os \o Joined(buffer_, newline) /\ buffer_' = <<>>)
       /\ dump_stream =>
             (stream' = stream \o Joined(buffer_, newline) /\ buffer_' = <<>>)
       /\ (FirstLogInfoX /\ dump_os)
             => os' = <<"[", "I", "N", "F", "O", "]", " ", "-", " ", "x", "\n">>
       /\ (FirstLogInfoX /\ dump_stream)
             => stream' = <<"[", "I", "N", "F", "O", "]", " ", "-", " ", "x", "\n">>]_vars

\* C3: a dump to a std::ostream or to a file follows every line it emits,
\* also those buffered under another newline, with the newline current at
\* the dump, and not with the newline current when the line was logged.
C3_NewlineAppliedAtDump ==
    [][/\ dump_os =>
             /\ os' = os \o Joined(buffer_, newline)
             /\ (\E i \in DOMAIN logged : logged[i].newline # newline)
                    => os' # os \o JoinEach(buffer_,
                                    [i \in DOMAIN logged |-> logged[i].newline])
       /\ \A f \in FileNames, o \in OpenModes :
             (dump_file(f, o) /\ CanOpen(f)) =>
                 /\ files'[f].content = Opened(f, o) \o Joined(buffer_, newline)
                 /\ (\E i \in DOMAIN logged : logged[i].newline # newline)
                        => files'[f].content
                               # Opened(f, o) \o JoinEach(buffer_,
                                     [i \in DOMAIN logged |-> logged[i].newline])]_vars

\* C3 witness: a dump to the std::ostream was just made of a line that was
\* logged before the newline was changed.
C3_Witness ==
    /\ last.op = "dump_os"
    /\ \E i \in DOMAIN last.logged : last.logged[i].newline # newline
    /\ os # <<>>

\* C4: a dump(file_name, mode) that cannot open the file returns false,
\* writes nothing and leaves the buffer as it was (so a buffer that holds
\* lines still holds them); the dump that follows it, to a std::ostream or to
\* a file that opens, emits the lines that were buffered, in their order.
C4_FailedDumpKeepsBuffer ==
    [][/\ \A f \in FileNames, o \in OpenModes :
             (dump_file(f, o) /\ ~CanOpen(f)) =>
                 /\ ret' = FALSE
                 /\ NoOutput
                 /\ buffer_' = buffer_
                 /\ buffer_ # <<>> => buffer_' # <<>>
       /\ (last.op = "dump_file" /\ ~ret /\ dump_os) =>
             os' = os \o Joined(last.buffer, newline)
       /\ \A f \in FileNames, o \in OpenModes :
             (last.op = "dump_file" /\ ~ret /\ dump_file(f, o) /\ CanOpen(f)) =>
                 /\ ret' = TRUE
                 /\ files'[f].content = Opened(f, o) \o Joined(last.buffer, newline)]_vars

\* C4 witness: a dump to the std::ostream was just made right after a failed
\* file dump of a buffer that held a line.
C4_Witness ==
    /\ last.op = "dump_os"
    /\ last.retry
    /\ last.buffer # <<>>
    /\ os = Joined(last.buffer, newline)

\* C5 as stated: every file log of Logger or SLogger to a path that cannot be
\* opened returns false and leaves the file system as it was.
C5_UnopenableFileLogFails ==
    [][\A t \in LOG_TYPE, m \in Messages, f \in FileNames, o \in OpenModes :
          (~CanOpen(f) /\ (log_file(t, m, f, o) \/ SLogger_log_file(t, m, f, o)))
              => (ret' = FALSE /\ files' = files)]_vars

\* C5 amended: a file log of Logger or SLogger at an enabled level to a path
\* that cannot be opened returns false, and the file is neither created nor
\* modified.
C5_EnabledUnopenableFileLogFails ==
    [][\A t \in LOG_TYPE, m \in Messages, f \in FileNames, o \in OpenModes :
          /\ (~CanOpen(f) /\ isEnabled(t) /\ log_file(t, m, f, o))
                 => (ret' = FALSE /\ files' = files /\ ~files'[f].exists)
          /\ (~CanOpen(f) /\ SFlag(t) /\ SLogger_log_file(t, m, f, o))
                 => (ret' = FALSE /\ files' = files /\ ~files'[f].exists)]_vars

\* C5 witness: a file log at an enabled level to the unopenable path just
\* returned false.
C5_Witness ==
    /\ last.op \in {"log_file", "SLogger_log_file"}
    /\ ~CanOpen(last.file_name)
    /\ IF last.op = "log_file" THEN isEnabled(last.log_type) ELSE SFlag(last.log_type)
    /\ ret = FALSE

\* C6: a file log of Logger or SLogger at a disabled level returns true and
\* leaves the file system as it was, whatever the file name and the mode.
C6_DisabledFileLogSucceeds ==
    [][\A t \in LOG_TYPE, m \in Messages, f \in FileNames, o \in OpenModes :
          /\ (~isEnabled(t) /\ log_file(t, m, f, o))
                 => (ret' = TRUE /\ files' = files)
          /\ (~SFlag(t) /\ SLogger_log_file(t, m, f, o))
                 => (ret' = TRUE /\ files' = files)]_vars

\* C6 witness: a Logger file log at a disabled level to the unopenable path
\* just returned true.
C6_Witness ==
    /\ last.op = "log_file"
    /\ ~isEnabled(last.log_type)
    /\ ~CanOpen(last.file_name)
    /\ ret = TRUE

\* C7: a direct Logger log at an enabled level appends header(L) +
\* separator + message + newline, the same text on its three paths:
\* std::ostream, user stream, file that opens.
C7_DirectLogSameTextOnThreePaths ==
    [][\A t \in LOG_TYPE, m \in Messages :
          isEnabled(t) =>
              /\ log_os(t, m)
                     => os' = os \o header(t) \o separator \o m \o newline
              /\ log_stream(t, m)
                     => stream' = stream \o header(t) \o separator \o m \o newline
              /\ \A f \in FileNames, o \in OpenModes :
                    (log_file(t, m, f, o) /\ CanOpen(f))
                        => files'[f].content
                               = Opened(f, o) \o header(t) \o separator \o m \o newline]_vars

C9_OstreamHeaderIsLevel ==
    [][\A t \in LOG_TYPE, m \in Messages :
          (SFlag(t) /\ SLogger_log_os(t, m))
              => os' = os \o Tag(t) \o <<" ", "-", " ">> \o m \o NEWLINE]_vars

\* C10: setEnabledAll(false) leaves every level disabled; setEnabled(L, flag)
\* sets L's flag and leaves the other flags, the headers, the separator, the
\* newline and the buffer as they were.
C10_SetEnabledOneLevel ==
    [][/\ setEnabledAll(FALSE) => \A t \in LOG_TYPE : ~isEnabled(t)'
       /\ \A t \in LOG_TYPE, e \in BOOLEAN :
             setEnabled(t, e) =>
                 /\ isEnabled(t)' = e
                 /\ \A u \in LOG_TYPE \ {t} : isEnabled(u)' = isEnabled(u)
                 /\ UNCHANGED <<logs_headers_, separator_, newline_, buffer_>>]_vars

\* C10 witness: one level was just enabled again while the other three are
\* disabled.
C10_Witness ==
    /\ last.op = "setEnabled"
    /\ isEnabled(last.log_type)
    /\ \A u \in LOG_TYPE \ {last.log_type} : ~isEnabled(u)

\* C11: a direct Logger log, to a std::ostream, to a user stream or to a
\* file, at an enabled or a disabled level, written or failed, leaves the
\* flags, the headers, the separator, the newline and the buffer as they were.
C11_DirectLogKeepsLogger ==
    [][last'.op \in {"log_os", "log_stream", "log_file"}
          => UNCHANGED <<flags_logs_enabled_, logs_headers_, separator_,
                         newline_, buffer_>>]_vars

\* C11 witness: a file log at an enabled level just failed on a logger that
\* holds a buffered line.
C11_Witness ==
    /\ last.op = "log_file"
    /\ isEnabled(last.log_type)
    /\ ret = FALSE
    /\ Len(buffer_) = 1

\* C12: a Logger file log at an enabled level to a file that opens returns
\* true and writes one line, header + separator + message + newline: in the
\* default mode (out) the file then holds that line alone, in append mode
\* what it held before followed by that line; no other file changes.  So
\* after successive such logs to one file the file holds the last line (out)
\* or all the lines in call order after its prior content (app).
C12_FileLogTruncatesOrAppends ==
    [][last'.op = "log_file" =>
          \A m \in Messages, o \in OpenModes :
              (/\ log_file(last'.log_type, m, last'.file_name, o)
               /\ isEnabled(last'.log_type)
               /\ CanOpen(last'.file_name))
                  => /\ ret' = TRUE
                     /\ files'[last'.file_name].exists
                     /\ files'[last'.file_name].content
                            = (IF o = "app" THEN files[last'.file_name].content
                                            ELSE <<>>)
                              \o header(last'.log_type) \o separator \o m \o newline
                     /\ \A g \in FileNames \ {last'.file_name} :
                            files'[g] = files[g]]_vars

\* C12 witness: the second of two file logs in append mode was just made;
\* the file holds the two lines in call order.
C12_Witness ==
    /\ last.op = "log_file"
    /\ ret = TRUE
    /\ files[last.file_name].content
           = <<"[", "I", "N", "F", "O", "]", " ", "-", " ", "x", "\n",
               "[", "F", "A", "T", "A", "L", "]", " ", "-", " ", "x", "\n">>

\* C13: header(L), separator() and newline() return the value passed to the
\* last setHeader(L, .), setSeparator and setNewline, as passed (also the
\* empty string): the setter makes the getter return its argument, no other
\* call changes what the getter returns, and setHeader(L, h) leaves the
\* headers of the other levels as they were.
C13_GettersReturnLastSet ==
    [][/\ last'.op = "setHeader" =>
             \A t \in LOG_TYPE, h \in Headers :
                 setHeader(t, h) =>
                     /\ header(t)' = h
                     /\ \A u \in LOG_TYPE \ {t} : header(u)' = header(u)
       /\ \A s \in Separators : setSeparator(s) => separator' = s
       /\ \A n \in Newlines : setNewline(n) => newline' = n
       /\ last'.op # "setHeader" => \A t \in LOG_TYPE : header(t)' = header(t)
       /\ last'.op # "setSeparator" => separator' = separator
       /\ last'.op # "setNewline" => newline' = newline]_vars

\* C13 witness: a header was just set to the empty string while another
\* level holds a header set before.
C13_Witness ==
    /\ last.op = "setHeader"
    /\ header(last.log_type) = <<>>
    /\ \E u \in LOG_TYPE \ {last.log_type} : header(u) = <<"#">>

\* C14: a Logger just built, by Logger() or by Logger(buffer_min_capacity),
\* has the four levels enabled, the headers "[INFO]", "[WARNING]", "[ERROR]"
\* and "[FATAL]", the separator " - ", the newline "\n" and an empty buffer.
C14_ConstructedDefaults ==
    calls = 0 =>
        /\ \A t \in LOG_TYPE : isEnabled(t) = TRUE /\ header(t) = Tag(t)
        /\ separator = <<" ", "-", " ">>
        /\ newline = <<"\n">>
        /\ buffer_ = <<>>

\* C14 witness: the logger was just built and no call was made on it.
C14_Witness ==
    /\ calls = 0
    /\ last.op = "none"
    /\ DOMAIN flags_logs_enabled_ = LOG_TYPE

\* The calls that buffered the lines, as text: for each, the header and the
\* separator current at the call and the message, followed by nl.
RECURSIVE LoggedText(_, _)
LoggedText(history, nl) ==
    IF history = <<>> THEN <<>>
    ELSE Head(history).header \o Head(history).separator
             \o Head(history).message \o nl \o LoggedText(Tail(history), nl)

\* C15: a buffered log at an enabled level appends one entry at the end of
\* the buffer, header(L) + separator + message as they are at the call, and
\* leaves the entries before it; setHeader and setSeparator leave the buffer
\* as it was: the buffer always holds, for each line, the header and the
\* separator of the time it was logged, and a dump to a std::ostream emits
\* each line with them.
C15_EntryFormattedAtLogTime ==
    [][/\ (last'.op = "log" /\ isEnabled(last'.log_type)) =>
             buffer_' = Append(buffer_, header(last'.log_type) \o separator
                                            \o last'.message)
       /\ last'.op \in {"setHeader", "setSeparator"} => buffer_' = buffer_
       /\ buffer_' = [i \in DOMAIN logged' |->
                         logged'[i].header \o logged'[i].separator
                             \o logged'[i].message]
       /\ dump_os => os' = os \o LoggedText(logged, newline)]_vars

\* C15 witness: a dump to the std::ostream was just made of a line whose
\* level got another header after the line was logged.
C15_Witness ==
    /\ last.op = "dump_os"
    /\ \E i \in DOMAIN last.logged :
           last.logged[i].header # header(last.logged[i].log_type)
    /\ os = LoggedText(last.logged, newline)
    /\ os # <<>>

\* text is one SLogger line for the message: one of the four "[...] - "
\* literals, the message, nl.
OneSLine(text, message, nl) ==
    \E lit \in {LitInfo, LitWarning, LitError, LitFatal} :
        text = lit \o message \o nl

\* What an SLogger call to a std::ostream or a user stream does to the sinks
\* when a line is written if and only if the level's own flag is true.
SWritesIffOwnFlag ==
    /\ last'.op = "SLogger_log_os" =>
          \A m \in Messages :
              SLogger_log_os(last'.log_type, m) =>
                  /\ IF SFlag(last'.log_type)
                     THEN /\ StartsWith(os', os)
                          /\ OneSLine(Added(os, os'), m, NEWLINE)
                     ELSE os' = os
                  /\ stream' = stream /\ files' = files
    /\ last'.op = "SLogger_log_stream" =>
          \A m \in Messages :
              SLogger_log_stream(last'.log_type, m) =>
                  /\ IF SFlag(last'.log_type)
                     THEN /\ StartsWith(stream', stream)
                          /\ OneSLine(Added(stream, stream'), CStr(m), CStr(NEWLINE))
                     ELSE stream' = stream
                  /\ os' = os /\ files' = files

\* What an SLogger call to a file does to the sinks when it puts one line
\* after the content the open leaves if the level's own flag is true, and
\* leaves every file as it was if the flag is false.
SFileWritesIffOwnFlag(m, o) ==
    /\ IF SFlag(last'.log_type)
       THEN /\ files'[last'.file_name].exists
            /\ StartsWith(files'[last'.file_name].content,
                          Opened(last'.file_name, o))
            /\ OneSLine(Added(Opened(last'.file_name, o),
                              files'[last'.file_name].content), m, NEWLINE)
            /\ \A g \in FileNames \ {last'.file_name} : files'[g] = files[g]
       ELSE files' = files
    /\ os' = os /\ stream' = stream

\* C16 as stated: on each of the three paths an SLogger log call at level L
\* writes a line if and only if L's own flag is true, whatever the three
\* other flags, and writes at most one line.
C16_SLoggerWritesIffOwnFlag ==
    [][/\ SWritesIffOwnFlag
       /\ last'.op = "SLogger_log_file" =>
             \A m \in Messages, o \in OpenModes :
                 SLogger_log_file(last'.log_type, m, last'.file_name, o)
                     => SFileWritesIffOwnFlag(m, o)]_vars

\* C16 amended: on the std::ostream and the user stream paths an SLogger log
\* call at level L writes one line if L's own flag is true and nothing if
\* it is false, whatever the three other flags; on the file path it does so
\* when the file can be opened, and writes nothing when it cannot.
C16_SLoggerWritesIffOwnFlagAndOpens ==
    [][/\ SWritesIffOwnFlag
       /\ last'.op = "SLogger_log_file" =>
             \A m \in Messages, o \in OpenModes :
                 SLogger_log_file(last'.log_type, m, last'.file_name, o)
                     => IF CanOpen(last'.file_name)
                        THEN SFileWritesIffOwnFlag(m, o)
                        ELSE NoOutput]_vars

\* C16 witness: a file log was just made at a level whose flag is false
\* while the three other flags are true, and the file holds the one line of
\* an earlier call.
C16_Witness ==
    /\ last.op = "SLogger_log_file"
    /\ ~SFlag(last.log_type)
    /\ \A u \in LOG_TYPE \ {last.log_type} : SFlag(u)
    /\ CanOpen(last.file_name)
    /\ ret = TRUE
    /\ \E m \in Messages :
           OneSLine(files[last.file_name].content, m, NEWLINE)

\* C17: between two calls no file is held open by the library, whether the
\* last call was a file log or a file dump of Logger or of SLogger that
\* wrote, could not open its file, or skipped a disabled level.
C17_NoHandleAcrossCalls == handles = {}

\* C17 witness: a file log or a file dump just wrote to a file it opened,
\* and the file is closed.
C17_Witness ==
    /\ last.op \in {"log_file", "dump_file", "SLogger_log_file"}
    /\ ret = TRUE
    /\ files[last.file_name].content # <<>>
    /\ handles = {}

\* C18: in every state a Logger reaches by calls with levels among INFO,
\* WARNING, ERROR and FATAL, flags_logs_enabled_ and logs_headers_ each have
\* an entry for exactly these four levels.
C18_MapsHoldFourLevels ==
    /\ DOMAIN flags_logs_enabled_ = LOG_TYPE
    /\ DOMAIN logs_headers_ = LOG_TYPE

\* C18 witness: a level was disabled and given the empty header, and a
\* buffered log was then made at it; both maps still have the four levels.
C18_Witness ==
    /\ last.op = "log"
    /\ ~isEnabled(last.log_type)
    /\ header(last.log_type) = <<>>
    /\ DOMAIN flags_logs_enabled_ = LOG_TYPE
    /\ DOMAIN logs_headers_ = LOG_TYPE

\* The lines, in order, as operator<<(const char *) writes them, each
\* followed by nl written the same way.
RECURSIVE JoinedCStr(_, _)
JoinedCStr(lines, nl) ==
    IF lines = <<>> THEN <<>>
    ELSE CStr(Head(lines)) \o CStr(nl) \o JoinedCStr(Tail(lines), nl)

\* C19: setEnabled and setEnabledAll leave the buffer as it was, and a dump
\* that succeeds emits every buffered line in order whatever the flags are
\* at the dump: a line logged while its level was enabled is emitted even
\* if the level, or every level, was disabled since.
C19_EnablementCheckedAtLogOnly ==
    [][/\ last'.op \in {"setEnabled", "setEnabledAll"} => buffer_' = buffer_
       /\ last'.op = "dump_os" => os' = os \o Joined(buffer_, newline)
       /\ last'.op = "dump_stream" =>
             stream' = stream \o JoinedCStr(buffer_, newline)
       /\ (last'.op = "dump_file" /\ ret') =>
             \E o \in OpenModes :
                 files'[last'.file_name].content
                     = Opened(last'.file_name, o) \o Joined(buffer_, newline)
       /\ last'.op \in {"dump_os", "dump_stream", "dump_file"} =>
             /\ Len(buffer_) = Len(logged)
             /\ flags_logs_enabled_' = flags_logs_enabled_]_vars

\* C19 witness: a dump to the std::ostream just emitted a line while every
\* level is disabled.
C19_Witness ==
    /\ last.op = "dump_os"
    /\ last.buffer # <<>>
    /\ \A t \in LOG_TYPE : ~isEnabled(t)
    /\ os = Joined(last.buffer, newline)
    /\ buffer_ = <<>>

\* C20: dump(file_name, mode) with an empty buffer on a file that can be
\* opened returns true and leaves the file existing, empty when the mode is
\* the default out (whatever an earlier dump wrote there is erased) and
\* with its content kept when the mode is app; with an empty buffer on a
\* file that cannot be opened it returns false and leaves the files as they
\* were.
C20_EmptyDumpOpensFile ==
    [][(last'.op = "dump_file" /\ buffer_ = <<>>) =>
          \A o \in OpenModes :
              dump_file(last'.file_name, o) =>
                  IF CanOpen(last'.file_name)
                  THEN /\ ret' = TRUE
                       /\ files'[last'.file_name].exists
                       /\ files'[last'.file_name].content
                              = (IF o = "out" THEN <<>>
                                 ELSE files[last'.file_name].content)
                  ELSE ret' = FALSE /\ files' = files]_vars

\* C20 witness: a dump with an empty buffer was just made to a file that
\* held a line written before; it returned true and the file is empty.
C20_Witness ==
    /\ last.op = "dump_file"
    /\ last.buffer = <<>>
    /\ last.before # <<>>
    /\ ret = TRUE
    /\ files[last.file_name].exists
    /\ files[last.file_name].content = <<>>

====
